---- MODULE Spec2Model ----
(***************************************************************************)
(* Batch gradient descent for a linear least-squares fit, as executed by   *)
(* the code cell of src/gradient_descent/gradient_descent.ipynb            *)
(* (lines 135-154).                                                        *)
(*                                                                         *)
(* Numbers.  The cell computes in floating point; the model computes the   *)
(* same expressions exactly, over rationals <<n, d>> kept in lowest terms  *)
(* with d > 0, so that equal values are equal tuples.  Rounding is not     *)
(* modelled, except where the notebook's example is run for its 1000       *)
(* iterations (SpecExample), which stores theta rounded.                   *)
(* Overflow is: a result of + or * whose magnitude exceeds                 *)
(* FloatMax is the marker NonFinite (inf and nan taken together), and a    *)
(* + or * with a NonFinite operand is NonFinite, as inf and nan are under  *)
(* IEEE addition and multiplication.  numpy reports overflow by a          *)
(* RuntimeWarning, not by an exception.                                    *)
(*                                                                         *)
(* Arrays.  A numpy 2-d array is a sequence of rows, each a sequence of    *)
(* rationals.  Python indices are 0-based and kept so in the variables     *)
(* (iteration); the helpers At and ItemSet add the 1 TLA+ sequences need.  *)
(***************************************************************************)
EXTENDS Integers, Sequences, FiniteSets, TLC

(***************************************************************************)
(* Bounds of the model.                                                    *)
(***************************************************************************)
MaxN == 2

MaxIter == 3

\* the largest finite magnitude of a float, scaled down
FloatMax == 100

\* the base of the multi-word integers that squared errors are compared in
Limb == 10000

\* the floats per unit in runs too long for exact fractions: there a stored
\* theta is a multiple of 1 / FloatSteps
FloatSteps == 4096

(***************************************************************************)
(* Program constants.                                                      *)
(***************************************************************************)
\* np.ones((2,n_iterations)): the trajectory buffer has two rows
EvRows == 2

\* np.random.seed(0)
SeedValue == 0

\* n_iterations = 1000
NotebookIterations == 1000

(***************************************************************************)
(* Exact rational arithmetic.                                              *)
(***************************************************************************)
Abs(a) == IF a < 0 THEN -a ELSE a

RECURSIVE GCD(_, _)
GCD(a, b) == IF b = 0 THEN a ELSE GCD(b, a % b)

Norm(n, d) ==
    LET s == IF d < 0 THEN -1 ELSE 1
        g == GCD(Abs(n), Abs(d))
    IN  <<(s * n) \div g, (s * d) \div g>>

Rat(n) == <<n, 1>>

\* inf, -inf or nan
NonFinite == <<0, 0>>

IsNonFinite(a) == a[2] = 0

\* whether the fraction n/d, d > 0, is beyond the largest finite float
Overflows(n, d) ==
    LET q == Abs(n) \div d
    IN  q > FloatMax \/ (q = FloatMax /\ Abs(n) % d # 0)

\* the float a finite exact result r becomes
Finite(r) == IF Overflows(r[1], r[2]) THEN NonFinite ELSE r

RAdd(a, b) ==
    IF IsNonFinite(a) \/ IsNonFinite(b) THEN NonFinite
    ELSE LET g == GCD(a[2], b[2])
         IN  Finite(Norm(a[1] * (b[2] \div g) + b[1] * (a[2] \div g),
                         (a[2] \div g) * b[2]))

RNeg(a) == <<-a[1], a[2]>>

RSub(a, b) == RAdd(a, RNeg(b))

RMul(a, b) ==
    IF IsNonFinite(a) \/ IsNonFinite(b) THEN NonFinite
    ELSE LET g1 == GCD(Abs(a[1]), b[2])
             g2 == GCD(Abs(b[1]), a[2])
             h1 == IF g1 = 0 THEN 1 ELSE g1
             h2 == IF g2 = 0 THEN 1 ELSE g2
         IN  Finite(Norm((a[1] \div h1) * (b[1] \div h2),
                         (a[2] \div h2) * (b[2] \div h1)))

\* a / b for finite a and b, b not 0
RDiv(a, b) == RMul(a, Norm(b[2], b[1]))

RECURSIVE RSum(_, _)
\* f[1] + ... + f[n], summed left to right
RSum(f, n) == IF n = 0 THEN Rat(0) ELSE RAdd(RSum(f, n - 1), f[n])

(***************************************************************************)
(* numpy arrays.                                                           *)
(***************************************************************************)
RECURSIVE TabulateFrom(_, _, _)
\* the sequence <<f[lo], ..., f[hi]>>, every entry computed once, built by
\* halves so that long arrays nest only a few levels deep
TabulateFrom(f, lo, hi) ==
    IF lo > hi THEN <<>>
    ELSE IF lo = hi THEN <<f[lo]>>
    ELSE TabulateFrom(f, lo, (lo + hi) \div 2) \o TabulateFrom(f, (lo + hi) \div 2 + 1, hi)

\* the sequence <<f[1], ..., f[n]>>
Tabulate(f, n) == TabulateFrom(f, 1, n)

Rows(A) == Len(A)

Cols(A) == IF Len(A) = 0 THEN 0 ELSE Len(A[1])

\* A[i, j] with Python's 0-based indices
At(A, i, j) == A[i + 1][j + 1]

\* a column vector (k x 1 array) from a sequence of rationals
ColVec(v) == Tabulate([i \in 1..Len(v) |-> <<v[i]>>], Len(v))

\* column j (0-based) of A, as a sequence
Column(A, j) == Tabulate([i \in 1..Rows(A) |-> At(A, i - 1, j)], Rows(A))

\* np.ones that takes a negative dimension for an empty one
NpOnesFailsLenient(r, c) == FALSE

\* np.ones((r, c)) raises ValueError ("negative dimensions are not allowed")
NpOnesFails(r, c) == r < 0 \/ c < 0

\* np.ones allocating one column too many
NpOnesExtraColumn(r, c) ==
    Tabulate([i \in 1..r |-> Tabulate([j \in 1..(c + 1) |-> Rat(1)], c + 1)], r)

NpOnes(r, c) == Tabulate([i \in 1..r |-> Tabulate([j \in 1..c |-> Rat(1)], c)], r)

\* A.itemset((i, j), v) raises IndexError when (i, j) is outside A
ItemSetFails(A, i, j) == ~(0 <= i /\ i < Rows(A) /\ 0 <= j /\ j < Cols(A))

\* an assignment to the whole row: A[i, :] = v
ItemSetWholeRow(A, i, j, v) ==
    [A EXCEPT ![i + 1] = Tabulate([k \in 1..Cols(A) |-> v], Cols(A))]

\* A after A.itemset((i, j), v)
ItemSet(A, i, j, v) == [A EXCEPT ![i + 1][j + 1] = v]

\* A.T
Transpose(A) ==
    Tabulate([j \in 1..Cols(A) |->
                 Tabulate([i \in 1..Rows(A) |-> A[i][j]], Rows(A))], Cols(A))

\* A.dot(B) raises ValueError ("shapes not aligned") unless this holds
DotOk(A, B) == Cols(A) = Rows(B)

\* A.dot(B)
Dot(A, B) ==
    LET entry(i, j) == RSum([k \in 1..Cols(A) |-> RMul(A[i][k], B[k][j])], Cols(A))
    IN  Tabulate([i \in 1..Rows(A) |->
                     Tabulate([j \in 1..Cols(B) |-> entry(i, j)], Cols(B))], Rows(A))

\* numpy broadcasting of two 2-d shapes: each axis equal, or one of them 1
BroadcastOk(A, B) ==
    /\ (Rows(A) = Rows(B) \/ Rows(A) = 1 \/ Rows(B) = 1)
    /\ (Cols(A) = Cols(B) \/ Cols(A) = 1 \/ Cols(B) = 1)

Max(a, b) == IF a >= b THEN a ELSE b

\* the element of A that broadcasting pairs with position (i, j) of the result
BAt(A, i, j) ==
    A[IF Rows(A) = 1 THEN 1 ELSE i][IF Cols(A) = 1 THEN 1 ELSE j]

\* A - B, elementwise with broadcasting
BSub(A, B) ==
    LET r == Max(Rows(A), Rows(B))
        c == Max(Cols(A), Cols(B))
    IN  Tabulate([i \in 1..r |->
                     Tabulate([j \in 1..c |-> RSub(BAt(A, i, j), BAt(B, i, j))], c)], r)

\* a product that drops the scalar
ScalarMulUnscaled(s, A) == A

\* s * A for a scalar s
ScalarMul(s, A) ==
    Tabulate([i \in 1..Rows(A) |->
                 Tabulate([j \in 1..Cols(A) |-> RMul(s, A[i][j])], Cols(A))], Rows(A))

(***************************************************************************)
(* The expressions of the loop body.                                       *)
(***************************************************************************)
\* 2/N * Xb.T.dot(Xb.dot(theta) - y) raises ValueError unless this holds
GradientsOk(X, th, yy) ==
    /\ DotOk(X, th)
    /\ BroadcastOk(Dot(X, th), yy)
    /\ DotOk(Transpose(X), BSub(Dot(X, th), yy))

\* the gradient with the factor 1/N in place of 2/N
GradientsHalved(n, X, th, yy) ==
    ScalarMul(RDiv(Rat(1), Rat(n)), Dot(Transpose(X), BSub(Dot(X, th), yy)))

\* 2/N * Xb.T.dot(Xb.dot(theta) - y)
Gradients(n, X, th, yy) ==
    ScalarMul(RDiv(Rat(2), Rat(n)), Dot(Transpose(X), BSub(Dot(X, th), yy)))

\* the update with the sign of the step flipped
ThetaUpdateAscent(th, g, grad) == BSub(th, ScalarMul(RNeg(g), grad))

\* theta - gamma*gradients
ThetaUpdate(th, g, grad) == BSub(th, ScalarMul(g, grad))

\* a loop bound that is off by one: range(n_iterations + 1)
RangeHasNextInclusive(it, n) == it + 1 <= n

\* range(n_iterations) has a next value after `it` (-1: the loop has not started)
RangeHasNext(it, n) == it + 1 < n

(***************************************************************************)
(* Input domains.                                                          *)
(***************************************************************************)
\* x = 2*np.random.rand(N,1): samples in [0, 2)
XVals == {Rat(0), <<3, 2>>}

\* y = 4 + 3*x + eta
YVals == {Rat(4), Rat(9)}

\* components of the initial guess
ThetaVals == {Rat(-1), <<1, 2>>}

\* states the generator may be in before it is seeded (lines 137-138 drew
\* from it unseeded)
Entropy == {1, 2}

\* step sizes: the cell's 0.1, a negative one, and one too large to converge
Gammas == {<<-1, 10>>, <<1, 10>>, Rat(5)}

SeqsUpTo(k, S) == UNION {[1..n -> S] : n \in 1..k}

(***************************************************************************)
(* State.                                                                  *)
(*   N, n_iterations, Xb, y, gamma   the cell's data and configuration     *)
(*   theta0       the vector np.random.randn(2,1) yields right after       *)
(*                np.random.seed(0): the initial guess                     *)
(*   rng          numpy's global generator: <<seed, draws made since>>     *)
(*   theta, theta_ev, gradients, iteration   the cell's variables; <<>>    *)
(*                (iteration: -1) while the name is not bound yet          *)
(*   pc           the statement to execute next                            *)
(*   err          the exception that ended the cell, "none" otherwise      *)
(*   call, prev_theta, prev_theta_ev   the execution count of the cell and *)
(*                what the previous execution left in theta and theta_ev   *)
(*   sched        threads executing the cell: which one runs, the next     *)
(*                value of its range iterator, and the pc, err and         *)
(*                iterator of the suspended one (C14)                      *)
(***************************************************************************)
VARIABLES N, n_iterations, Xb, y, gamma, theta0, rng,
          theta, theta_ev, gradients, iteration, pc, err,
          call, prev_theta, prev_theta_ev, sched

inputs == <<N, n_iterations, Xb, y, gamma, theta0>>

vars == <<N, n_iterations, Xb, y, gamma, theta0, rng,
          theta, theta_ev, gradients, iteration, pc, err,
          call, prev_theta, prev_theta_ev, sched>>

Unbound == <<>>

\* the scheduling of a single thread: it runs, and nothing is suspended
OneThread ==
    [running |-> 1, next |-> 0, suspended |-> [pc |-> "done", err |-> "none", next |-> 0]]

\* Xb = np.c_[np.ones((100,1)), x]: a leading column of ones, then the
\* samples; the cell writes the N = 100 rows of x out as 100, the model gives
\* the column of ones the N rows of x
DesignMatrix(x) == Tabulate([i \in 1..Len(x) |-> <<Rat(1), x[i]>>], Len(x))

\* np.random.randn(2,1) as a function of the generator's state: theta0 right
\* after seeding, some other vector in any other state
Randn(s) ==
    IF s = <<SeedValue, 0>>
    THEN ColVec(theta0)
    ELSE ColVec(Tabulate([i \in 1..Len(theta0) |->
                             RAdd(theta0[i], Rat(s[1] + s[2]))], Len(theta0)))

Configured ==
    /\ N \in 1..MaxN
    /\ n_iterations \in -1..MaxIter
    /\ Xb \in {DesignMatrix(x) : x \in [1..N -> XVals]}
    /\ y \in {ColVec(v) : v \in SeqsUpTo(MaxN, YVals)}
    /\ gamma \in Gammas
    /\ theta0 \in SeqsUpTo(EvRows + 1, ThetaVals)
    /\ rng \in {<<e, 0>> : e \in Entropy}
    /\ theta = Unbound
    /\ theta_ev = Unbound
    /\ gradients = Unbound
    /\ iteration = -1
    /\ pc = "alloc"
    /\ err = "none"
    /\ call = 1
    /\ prev_theta = Unbound
    /\ prev_theta_ev = Unbound

Init == Configured /\ sched = OneThread

Raise(e) == pc' = "failed" /\ err' = e

\* theta_ev = np.ones((2,n_iterations))
Alloc ==
    /\ pc = "alloc"
    /\ IF NpOnesFails(EvRows, n_iterations)
       THEN /\ Raise("ValueError")
            /\ UNCHANGED theta_ev
       ELSE /\ theta_ev' = NpOnes(EvRows, n_iterations)
            /\ pc' = "seed"
            /\ UNCHANGED err
    /\ UNCHANGED <<inputs, rng, theta, gradients, iteration,
                   call, prev_theta, prev_theta_ev, sched>>

\* the cell without its np.random.seed(0)
SeedSkipped ==
    /\ pc = "seed"
    /\ pc' = "draw"
    /\ UNCHANGED <<inputs, rng, theta, theta_ev, gradients, iteration, err,
                   call, prev_theta, prev_theta_ev, sched>>

\* np.random.seed(0)
Seed ==
    /\ pc = "seed"
    /\ rng' = <<SeedValue, 0>>
    /\ pc' = "draw"
    /\ UNCHANGED <<inputs, theta, theta_ev, gradients, iteration, err,
                   call, prev_theta, prev_theta_ev, sched>>

\* theta = np.random.randn(2,1)
Draw ==
    /\ pc = "draw"
    /\ theta' = Randn(rng)
    /\ rng' = <<rng[1], rng[2] + 1>>
    /\ pc' = "loop"
    /\ UNCHANGED <<inputs, theta_ev, gradients, iteration, err,
                   call, prev_theta, prev_theta_ev, sched>>

\* for iteration in range(n_iterations):
LoopHead ==
    /\ pc = "loop"
    /\ IF RangeHasNext(iteration, n_iterations)
       THEN iteration' = iteration + 1 /\ pc' = "rec0"
       ELSE pc' = "done" /\ UNCHANGED iteration
    /\ UNCHANGED <<inputs, rng, theta, theta_ev, gradients, err,
                   call, prev_theta, prev_theta_ev, sched>>

\* the snapshot taken after the update instead of before it
RecordAfterUpdate(row, next) ==
    /\ IF row >= Rows(theta) \/ ItemSetFails(theta_ev, row, iteration)
       THEN /\ Raise("IndexError")
            /\ UNCHANGED theta_ev
       ELSE /\ theta_ev' =
                 ItemSet(theta_ev, row, iteration,
                         IF GradientsOk(Xb, theta, y)
                         THEN At(ThetaUpdate(theta, gamma,
                                             Gradients(N, Xb, theta, y)), row, 0)
                         ELSE At(theta, row, 0))
            /\ pc' = next
            /\ UNCHANGED err
    /\ UNCHANGED <<inputs, rng, theta, gradients, iteration,
                   call, prev_theta, prev_theta_ev, sched>>

\* theta_ev.itemset((row,iteration), theta[row]), then on to statement `next`
Record(row, next) ==
    /\ IF row >= Rows(theta) \/ ItemSetFails(theta_ev, row, iteration)
       THEN /\ Raise("IndexError")
            /\ UNCHANGED theta_ev
       ELSE /\ theta_ev' = ItemSet(theta_ev, row, iteration, At(theta, row, 0))
            /\ pc' = next
            /\ UNCHANGED err
    /\ UNCHANGED <<inputs, rng, theta, gradients, iteration,
                   call, prev_theta, prev_theta_ev, sched>>

\* theta_ev.itemset((0,iteration), theta[0])
Record0 == pc = "rec0" /\ Record(0, "rec1")

\* theta_ev.itemset((1,iteration), theta[1])
Record1 == pc = "rec1" /\ Record(1, "grad")

\* the residual computed in place, into y (y -= Xb.dot(theta))
GradientInPlace ==
    /\ pc = "grad"
    /\ IF GradientsOk(Xb, theta, y)
       THEN /\ gradients' = Gradients(N, Xb, theta, y)
            /\ y' = BSub(y, Dot(Xb, theta))
            /\ pc' = "upd"
            /\ UNCHANGED err
       ELSE /\ Raise("ValueError")
            /\ UNCHANGED <<gradients, y>>
    /\ UNCHANGED <<N, n_iterations, Xb, gamma, theta0, rng, theta, theta_ev,
                   iteration, call, prev_theta, prev_theta_ev, sched>>

\* gradients = 2/N * Xb.T.dot(Xb.dot(theta) - y)
Gradient ==
    /\ pc = "grad"
    /\ IF GradientsOk(Xb, theta, y)
       THEN /\ gradients' = Gradients(N, Xb, theta, y)
            /\ pc' = "upd"
            /\ UNCHANGED err
       ELSE /\ Raise("ValueError")
            /\ UNCHANGED gradients
    /\ UNCHANGED <<inputs, rng, theta, theta_ev, iteration,
                   call, prev_theta, prev_theta_ev, sched>>

\* the update under np.seterr(all='raise'): overflow raises FloatingPointError
UpdateRaisingOnOverflow ==
    /\ pc = "upd"
    /\ IF ~BroadcastOk(theta, gradients)
       THEN /\ Raise("ValueError")
            /\ UNCHANGED theta
       ELSE IF \E i \in 1..Rows(theta) :
                   IsNonFinite(ThetaUpdate(theta, gamma, gradients)[i][1])
            THEN /\ Raise("FloatingPointError")
                 /\ UNCHANGED theta
            ELSE /\ theta' = ThetaUpdate(theta, gamma, gradients)
                 /\ pc' = "loop"
                 /\ UNCHANGED err
    /\ UNCHANGED <<inputs, rng, theta_ev, gradients, iteration,
                   call, prev_theta, prev_theta_ev, sched>>

\* theta = theta - gamma*gradients
Update ==
    /\ pc = "upd"
    /\ IF BroadcastOk(theta, gradients)
       THEN /\ theta' = ThetaUpdate(theta, gamma, gradients)
            /\ pc' = "loop"
            /\ UNCHANGED err
       ELSE /\ Raise("ValueError")
            /\ UNCHANGED theta
    /\ UNCHANGED <<inputs, rng, theta_ev, gradients, iteration,
                   call, prev_theta, prev_theta_ev, sched>>

Next == Alloc \/ Seed \/ Draw \/ LoopHead \/ Record0 \/ Record1 \/ Gradient \/ Update

Spec == Init /\ [][Next]_vars

\* The cell executed a second time in the same kernel, on the same Xb and y:
\* lines 137-138 have drawn from the generator again, the loop starts afresh
Rerun ==
    /\ pc = "done"
    /\ call = 1
    /\ call' = 2
    /\ prev_theta' = theta
    /\ prev_theta_ev' = theta_ev
    /\ rng' = <<rng[1], rng[2] + 2>>
    /\ iteration' = -1
    /\ pc' = "alloc"
    /\ UNCHANGED <<inputs, theta, theta_ev, gradients, err, sched>>

NextRerun == Next \/ Rerun

SpecRerun == Init /\ [][NextRerun]_vars

(***************************************************************************)
(* Vocabulary of the properties.                                           *)
(***************************************************************************)
\* the shapes run requires: theta0 has one entry per column of X, y one per row
ShapesMatch == Len(theta0) = Cols(Xb) /\ Rows(y) = Rows(Xb)

Mismatch == ~ShapesMatch

ValidInputs == ShapesMatch /\ n_iterations >= 0

BeforeLoop == pc \in {"alloc", "seed", "draw"}

InLoopBody == pc \in {"rec0", "rec1", "grad", "upd"}

\* trajectory[k]: the k-th snapshot, as a column vector
Snapshot(ev, k) == ColVec(Column(ev, k))

\* the number of snapshots completely written so far
Recorded == IF pc \in {"rec0", "rec1"} THEN iteration ELSE iteration + 1

\* one gradient-descent step from the column vector th
StepOf(th) == ThetaUpdate(th, gamma, Gradients(N, Xb, th, y))

RECURSIVE ThetaAfter(_)
\* theta0 after exactly k updates
ThetaAfter(k) == IF k = 0 THEN ColVec(theta0) ELSE StepOf(ThetaAfter(k - 1))

\* component j of  v - gamma*(2/N)*X^T(X v - y)  for a sequence v, written out
\* as sums over the entries, N the number of rows of X
RefComponent(v, j) ==
    LET n == Rows(Xb)
        residual(i) ==
            RSub(RSum([l \in 1..Len(v) |-> RMul(Xb[i][l], v[l])], Len(v)), y[i][1])
        partial == RSum([i \in 1..n |-> RMul(residual(i), Xb[i][j])], n)
    IN  RSub(v[j], RMul(gamma, RMul(RDiv(Rat(2), Rat(n)), partial)))

RefStep(v) == Tabulate([j \in 1..Len(v) |-> RefComponent(v, j)], Len(v))

(***************************************************************************)
(* C1.  Snapshot k is theta before the update of iteration k: the value    *)
(* reached from theta0 after exactly k updates.  It holds of every         *)
(* snapshot written so far, and at the end of all n_iterations of them.    *)
(***************************************************************************)
C1_SnapshotBeforeUpdate ==
    (ShapesMatch /\ ~BeforeLoop /\ pc # "failed") =>
        /\ \A k \in 0..(Recorded - 1) : Snapshot(theta_ev, k) = ThetaAfter(k)
        /\ pc = "rec1" => At(theta_ev, 0, iteration) = At(ThetaAfter(iteration), 0, 0)
        /\ pc = "done" => Recorded = n_iterations

C1_Witness ==
    /\ ShapesMatch
    /\ pc = "done"
    /\ n_iterations >= 2
    /\ Snapshot(theta_ev, 0) = ColVec(theta0)
    /\ Snapshot(theta_ev, 1) # Snapshot(theta_ev, 0)

(***************************************************************************)
(* C2.  One iteration replaces theta by theta - gamma*(2/N)*X^T(X theta-y),*)
(* component by component, and the gradient it uses is the one at the      *)
(* theta just snapshotted.                                                 *)
(***************************************************************************)
C2_UpdateMatchesReference ==
    ShapesMatch =>
        /\ pc = "upd" =>
              ThetaUpdate(Snapshot(theta_ev, iteration), gamma, gradients)
                  = ColVec(RefStep(Column(theta_ev, iteration)))
        /\ (pc = "loop" /\ iteration >= 0) =>
              theta = ColVec(RefStep(Column(theta_ev, iteration)))

C2_Witness ==
    /\ ShapesMatch
    /\ pc = "loop"
    /\ iteration >= 0
    /\ theta # Snapshot(theta_ev, iteration)

(***************************************************************************)
(* C3.  After n_iterations >= 1 iterations theta is one update ahead of    *)
(* the last snapshot: theta = RefStep(trajectory[n_iterations-1]), the     *)
(* result of n_iterations updates, for which the trajectory has no slot    *)
(* (its slots 0..n_iterations-1 hold the results of 0..n_iterations-1      *)
(* updates).                                                               *)
(***************************************************************************)
C3_FinalOneAhead ==
    (ShapesMatch /\ pc = "done" /\ n_iterations >= 1) =>
        /\ theta = ColVec(RefStep(Column(theta_ev, n_iterations - 1)))
        /\ theta = ThetaAfter(n_iterations)
        /\ Cols(theta_ev) = n_iterations
        /\ Snapshot(theta_ev, n_iterations - 1) = ThetaAfter(n_iterations - 1)

C3_Witness ==
    /\ ShapesMatch
    /\ pc = "done"
    /\ n_iterations >= 1
    /\ theta # Snapshot(theta_ev, n_iterations - 1)

(***************************************************************************)
(* C4.  On valid inputs the run does not fail, and when it finishes the    *)
(* trajectory holds exactly n_iterations snapshots, one per iteration of   *)
(* the loop, each of p components, as has theta (p the columns of X).      *)
(***************************************************************************)
C4_Shapes ==
    ValidInputs =>
        /\ pc # "failed"
        /\ pc = "done" =>
              /\ Recorded = n_iterations
              /\ Rows(theta_ev) = Cols(Xb)
              /\ \A r \in 1..Rows(theta_ev) : Len(theta_ev[r]) = n_iterations
              /\ Rows(theta) = Cols(Xb)
              /\ \A r \in 1..Rows(theta) : Len(theta[r]) = 1

C4_Witness == ValidInputs /\ pc = "done" /\ n_iterations >= 2

(***************************************************************************)
(* C5.  With n_iterations = 0 the loop body is never entered, no gradient  *)
(* is computed, and the run ends with theta = theta0 and an empty          *)
(* trajectory.                                                             *)
(***************************************************************************)
C5_ZeroIterations ==
    n_iterations = 0 =>
        /\ ~InLoopBody
        /\ pc # "failed"
        /\ gradients = Unbound
        /\ pc = "done" =>
              /\ theta = ColVec(theta0)
              /\ \A r \in 1..Rows(theta_ev) : theta_ev[r] = <<>>

C5_Witness == n_iterations = 0 /\ pc = "done" /\ theta = ColVec(theta0)

(***************************************************************************)
(* C6.  When the columns of X differ from the length of theta0, or the     *)
(* rows of X from the length of y, a run of at least one iteration fails,  *)
(* and the error is raised before the first iteration: the run never ends  *)
(* normally, and at the moment it fails no iteration has begun, nothing    *)
(* has been written into the trajectory and no gradient has been computed. *)
(***************************************************************************)
C6_MismatchRejectedBeforeLoop ==
    (Mismatch /\ n_iterations >= 1) =>
        /\ pc # "done"
        /\ pc = "failed" =>
              /\ iteration = -1
              /\ theta_ev \in {Unbound, NpOnes(EvRows, n_iterations)}
              /\ gradients = Unbound

(***************************************************************************)
(* C7.  A negative n_iterations ends the run with an error raised to the   *)
(* caller (numpy's ValueError, Python's invalid-argument exception, from   *)
(* the allocation of the trajectory) and not as a run of zero iterations:  *)
(* the loop is never reached, nothing is recorded, theta is not touched.   *)
(***************************************************************************)
C7_NegativeIterationsRejected ==
    n_iterations < 0 =>
        /\ pc \in {"alloc", "failed"}
        /\ pc = "failed" => err = "ValueError"
        /\ pc = "alloc" => err = "none"
        /\ theta_ev = Unbound
        /\ theta = Unbound
        /\ gradients = Unbound
        /\ iteration = -1

C7_Witness == n_iterations < 0 /\ pc = "failed" /\ err = "ValueError"

(***************************************************************************)
(* C8.  With a negative gamma a run on otherwise valid inputs fails before *)
(* any iteration instead of performing updates: no update is ever applied  *)
(* to theta, and the run never ends normally.                              *)
(***************************************************************************)
C8_NegativeGammaRejected ==
    (gamma[1] < 0 /\ ValidInputs /\ n_iterations >= 1) =>
        /\ ~(pc = "loop" /\ iteration >= 0)
        /\ pc # "done"

(***************************************************************************)
(* C9.  No step of the run modifies X or y.                                *)
(***************************************************************************)
C9_InputsNotMutated == [][Xb' = Xb /\ y' = y]_vars

C9_Witness ==
    /\ pc = "done"
    /\ n_iterations >= 2
    /\ theta # ColVec(theta0)
    /\ theta_ev # NpOnes(EvRows, n_iterations)

(***************************************************************************)
(* C10.  Determinism: a second execution on the same X, y, theta0, gamma   *)
(* and n_iterations goes through the theta values of the first (each       *)
(* snapshot it takes is the first execution's) and ends with the same      *)
(* theta and the same trajectory; and no step of the loop draws from the   *)
(* random generator.                                                       *)
(***************************************************************************)
C10_SameAsFirstRun ==
    (call = 2 /\ ~BeforeLoop) =>
        /\ pc # "failed"
        /\ \A k \in 0..(Recorded - 1) :
              Snapshot(theta_ev, k) = Snapshot(prev_theta_ev, k)
        /\ pc \in {"rec0", "rec1"} => theta = Snapshot(prev_theta_ev, iteration)
        /\ pc = "done" => theta = prev_theta /\ theta_ev = prev_theta_ev

C10_Deterministic ==
    /\ []C10_SameAsFirstRun
    /\ [][(pc \in {"loop", "rec0", "rec1", "grad", "upd"}) => rng' = rng]_vars

C10_Witness ==
    /\ call = 2
    /\ pc = "done"
    /\ n_iterations >= 2
    /\ theta = prev_theta
    /\ theta # Snapshot(theta_ev, 0)

(***************************************************************************)
(* C11.  The loop always terminates, and on valid inputs after exactly     *)
(* n_iterations passes, whatever values theta takes: growing or non-finite *)
(* values raise no error and do not end the loop early, and a component of *)
(* theta that is non-finite in one snapshot is non-finite in every later   *)
(* snapshot and in theta from then on, theta_final included.               *)
(* Termination is stated by a variant: a run that has not ended is at a    *)
(* statement of the cell (each of which executes or raises), every         *)
(* statement executed raises StepsTaken, and StepsTaken never exceeds a    *)
(* bound fixed by n_iterations.                                            *)
(***************************************************************************)
Terminated == pc \in {"done", "failed"}

AtStatement == pc \in {"alloc", "seed", "draw", "loop", "rec0", "rec1", "grad", "upd"}

\* the statements a run executes at most: three before the loop, five per
\* pass (the loop head and the four statements of the body), the last test of
\* the loop head
StepsBound == 3 + 5 * Max(n_iterations, 0) + 1

\* how many statements the run has executed (for a failed run: past the bound)
StepsTaken ==
    CASE pc = "alloc" -> 0
      [] pc = "seed" -> 1
      [] pc = "draw" -> 2
      [] pc = "loop" -> 3 + 5 * (iteration + 1)
      [] pc = "rec0" -> 3 + 5 * iteration + 1
      [] pc = "rec1" -> 3 + 5 * iteration + 2
      [] pc = "grad" -> 3 + 5 * iteration + 3
      [] pc = "upd" -> 3 + 5 * iteration + 4
      [] pc = "done" -> 3 + 5 * (iteration + 1) + 1
      [] pc = "failed" -> StepsBound + 1

C11_NoEarlyStop ==
    ValidInputs =>
        /\ pc # "failed"
        /\ err = "none"
        /\ pc = "done" => iteration + 1 = n_iterations
        /\ ~BeforeLoop =>
              \A j \in 1..EvRows : \A k \in 0..(Recorded - 1) :
                  IsNonFinite(At(theta_ev, j - 1, k)) =>
                      /\ \A k2 \in k..(Recorded - 1) :
                            IsNonFinite(At(theta_ev, j - 1, k2))
                      /\ IsNonFinite(At(theta, j - 1, 0))

C11_TerminatesWhateverTheta ==
    /\ []C11_NoEarlyStop
    /\ [](Terminated \/ AtStatement)
    /\ [](StepsTaken <= StepsBound + 1)
    /\ [](pc = "done" => StepsTaken = StepsBound)
    /\ [][StepsTaken' > StepsTaken]_vars

C11_Witness ==
    /\ ValidInputs
    /\ pc = "done"
    /\ n_iterations >= 3
    /\ \A j \in 1..EvRows : ~IsNonFinite(At(theta_ev, j - 1, 0))
    /\ \E j \in 1..EvRows :
          /\ IsNonFinite(At(theta_ev, j - 1, 1))
          /\ IsNonFinite(At(theta_ev, j - 1, 2))
          /\ IsNonFinite(At(theta, j - 1, 0))

(***************************************************************************)
(* Squared errors, compared exactly.  The squares of the residuals do not  *)
(* fit TLC's integers, so they are computed in multi-word natural numbers: *)
(* sequences of digits in base Limb, least significant first.              *)
(***************************************************************************)
RECURSIVE BigOf(_)
\* the natural number n
BigOf(n) == IF n = 0 THEN <<>> ELSE <<n % Limb>> \o BigOf(n \div Limb)

RECURSIVE BigCarry(_, _)
\* the number whose digit i is s[i], digits of any size, plus the carry c
BigCarry(s, c) ==
    IF s = <<>> THEN BigOf(c)
    ELSE <<(s[1] + c) % Limb>> \o BigCarry(Tail(s), (s[1] + c) \div Limb)

BigDigit(s, i) == IF i <= Len(s) THEN s[i] ELSE 0

BigAdd(s, t) ==
    LET n == Max(Len(s), Len(t))
    IN  BigCarry(Tabulate([i \in 1..n |-> BigDigit(s, i) + BigDigit(t, i)], n), 0)

\* s times the digit m
BigScale(s, m) == BigCarry(Tabulate([i \in 1..Len(s) |-> s[i] * m], Len(s)), 0)

RECURSIVE BigMul(_, _)
BigMul(s, t) ==
    IF s = <<>> THEN <<>>
    ELSE BigAdd(BigScale(t, s[1]), <<0>> \o BigMul(Tail(s), t))

RECURSIVE BigCmp(_, _)
\* -1, 0 or 1 as s is less than, equal to or greater than t
BigCmp(s, t) ==
    IF s = <<>> /\ t = <<>> THEN 0
    ELSE LET high == BigCmp(IF s = <<>> THEN <<>> ELSE Tail(s),
                            IF t = <<>> THEN <<>> ELSE Tail(t))
             a == BigDigit(s, 1)
             b == BigDigit(t, 1)
         IN  IF high # 0 THEN high
             ELSE IF a < b THEN -1 ELSE IF a > b THEN 1 ELSE 0

BigSquare(n) == BigMul(BigOf(n), BigOf(n))

\* X theta - y, the residuals of the fit th
Residuals(th) == BSub(Dot(Xb, th), y)

AllFinite(A) == \A i \in 1..Rows(A) : \A j \in 1..Cols(A) : ~IsNonFinite(A[i][j])

RECURSIVE CommonDen(_, _)
\* the least common denominator of the first n entries of the column vector r
CommonDen(r, n) ==
    IF n = 0 THEN 1
    ELSE LET d == CommonDen(r, n - 1)
         IN  (d \div GCD(d, r[n][1][2])) * r[n][1][2]

RECURSIVE SumSquares(_, _, _)
\* D^2 times the sum of the squares of the first n entries of r, D a common
\* denominator of them
SumSquares(r, D, n) ==
    IF n = 0 THEN <<>>
    ELSE BigAdd(SumSquares(r, D, n - 1),
                BigSquare(Abs(r[n][1][1]) * (D \div r[n][1][2])))

\* MSE(a) <= MSE(b), MSE(th) = (1/N) * ||Xb th - y||^2; false of a non-finite
\* error, as every comparison with nan is
MseLeq(a, b) ==
    LET ra == Residuals(a)
        rb == Residuals(b)
    IN  /\ AllFinite(ra)
        /\ AllFinite(rb)
        /\ LET Da == CommonDen(ra, Rows(ra))
               Db == CommonDen(rb, Rows(rb))
               g == GCD(Da, Db)
           IN  BigCmp(BigMul(SumSquares(ra, Da, Rows(ra)), BigSquare(Db \div g)),
                      BigMul(SumSquares(rb, Db, Rows(rb)), BigSquare(Da \div g))) <= 0

MseLess(a, b) == MseLeq(a, b) /\ ~MseLeq(b, a)

\* a / b <= c / d for finite rationals
RLeq(a, b) == a[1] * b[2] <= b[1] * a[2]

\* (2/N) * sum of the squares of the entries of Xb: no eigenvalue of the
\* Hessian (2/N) Xb^T Xb of the MSE is larger
CurvatureBound ==
    RMul(RDiv(Rat(2), Rat(N)),
         RSum([i \in 1..Rows(Xb) |->
                   RSum([j \in 1..Cols(Xb) |-> RMul(Xb[i][j], Xb[i][j])], Cols(Xb))],
              Rows(Xb)))

\* a step size small for the problem: positive and at most 1 / CurvatureBound
SmallStep == gamma[1] > 0 /\ RLeq(RMul(gamma, CurvatureBound), Rat(1))

\* Xb = [1 x] has independent columns: two entries of x differ
WellPosed ==
    /\ ValidInputs
    /\ \E i, k \in 1..Rows(Xb) : Xb[i][2] # Xb[k][2]

\* theta_k, k <= Recorded: snapshot k, or the current theta past the last one
Iterate(k) == IF k < Recorded THEN Snapshot(theta_ev, k) ELSE theta

\* the number of updates made so far
Updates == IF pc \in {"loop", "done"} THEN iteration + 1 ELSE Max(iteration, 0)

(***************************************************************************)
(* C12.  For a well-posed least-squares problem and a small enough step    *)
(* size, the mean-squared error of the successive theta_k never increases: *)
(* MSE(theta_(k+1)) <= MSE(theta_k) for every update made so far.  In      *)
(* exact arithmetic this holds from the first update on, with no warm-up.  *)
(***************************************************************************)
C12_MseNonIncreasing ==
    (WellPosed /\ SmallStep /\ ~BeforeLoop) =>
        \A k \in 0..(Updates - 1) : MseLeq(Iterate(k + 1), Iterate(k))

C12_Witness ==
    /\ WellPosed
    /\ SmallStep
    /\ pc = "done"
    /\ Updates >= 3
    /\ \A k \in 0..(Updates - 1) : MseLess(Iterate(k + 1), Iterate(k))

(***************************************************************************)
(* The notebook's example, run for its 1000 iterations.  Exact fractions   *)
(* grow a digit with every update, so here the update stores theta as a    *)
(* float does, rounded to the nearest multiple of 1 / FloatSteps; every    *)
(* other statement is the one of Spec.  The data are the notebook's, with  *)
(* two samples for its hundred.                                            *)
(***************************************************************************)
\* the multiple of 1 / FloatSteps nearest to the finite rational r
RoundTo(r) ==
    LET a == Abs(r[1])
        t == (a % r[2]) * FloatSteps
        up == IF 2 * (t % r[2]) >= r[2] THEN 1 ELSE 0
        m == (a \div r[2]) * FloatSteps + (t \div r[2]) + up
    IN  Norm(IF r[1] < 0 THEN -m ELSE m, FloatSteps)

Stored(A) ==
    Tabulate([i \in 1..Rows(A) |->
                 Tabulate([j \in 1..Cols(A) |->
                              IF IsNonFinite(A[i][j]) THEN NonFinite
                              ELSE RoundTo(A[i][j])], Cols(A))], Rows(A))

\* x = 2*np.random.rand(N,1): samples in [0,2)
ExampleX == {<<Rat(0), <<3, 2>>>>}

\* eta = np.random.rand(N,1): noise in [0,1)
ExampleEta == [1..2 -> {<<1, 4>>, <<3, 4>>}]

\* y = 4 + 3*x + eta
ExampleY(x, eta) ==
    ColVec(Tabulate([i \in 1..Len(x) |->
                        RAdd(RAdd(Rat(4), RMul(Rat(3), x[i])), eta[i])], Len(x)))

InitExample ==
    /\ N = 2
    /\ n_iterations = NotebookIterations
    /\ \E x \in ExampleX : \E eta \in ExampleEta :
           /\ Xb = DesignMatrix(x)
           /\ y = ExampleY(x, eta)
    /\ gamma = <<1, 10>>
    /\ theta0 = <<RoundTo(<<176405, 100000>>), RoundTo(<<40016, 100000>>)>>
    /\ rng \in {<<e, 0>> : e \in Entropy}
    /\ theta = Unbound
    /\ theta_ev = Unbound
    /\ gradients = Unbound
    /\ iteration = -1
    /\ pc = "alloc"
    /\ err = "none"
    /\ call = 1
    /\ prev_theta = Unbound
    /\ prev_theta_ev = Unbound
    /\ sched = OneThread

\* theta = theta - gamma*gradients, stored as a float
UpdateRounded ==
    /\ pc = "upd"
    /\ IF BroadcastOk(theta, gradients)
       THEN /\ theta' = Stored(ThetaUpdate(theta, gamma, gradients))
            /\ pc' = "loop"
            /\ UNCHANGED err
       ELSE /\ Raise("ValueError")
            /\ UNCHANGED theta
    /\ UNCHANGED <<inputs, rng, theta_ev, gradients, iteration,
                   call, prev_theta, prev_theta_ev, sched>>

NextExample ==
    Alloc \/ Seed \/ Draw \/ LoopHead \/ Record0 \/ Record1 \/ Gradient \/ UpdateRounded

SpecExample == InitExample /\ [][NextExample]_vars

\* |a - c| <= 1/2 for a rational a and an integer c
WithinHalf(a, c) ==
    /\ ~IsNonFinite(a)
    /\ 2 * Abs(a[1] - c * a[2]) <= a[2]

(***************************************************************************)
(* C13.  On the notebook's example (x in [0,2), y = 4 + 3x + noise, noise  *)
(* in [0,1), gamma = 0.1, 1000 iterations, the seed's initial guess) the   *)
(* final theta is within 0.5 of [4, 3] in both components.                 *)
(***************************************************************************)
C13_FinalNearFourThree ==
    pc = "done" =>
        /\ WithinHalf(At(theta, 0, 0), 4)
        /\ WithinHalf(At(theta, 1, 0), 3)

(***************************************************************************)
(* Two threads executing the cell in one interpreter.  The names of the    *)
(* cell (theta, theta_ev, gradients, iteration) are module-level and       *)
(* numpy's generator is global: both threads use the same ones.  A thread  *)
(* owns its position in the code, its exception and the iterator of its    *)
(* for loop.  One thread runs at a time, and the interpreter may switch    *)
(* between any two statements.                                             *)
(***************************************************************************)
TwoThreads ==
    [running |-> 1, next |-> 0, suspended |-> [pc |-> "alloc", err |-> "none", next |-> 0]]

\* valid inputs, one sample and one or two iterations: enough for two threads
\* to meet
InitThreads ==
    /\ Configured
    /\ ShapesMatch
    /\ N = 1
    /\ gamma = <<1, 10>>
    /\ n_iterations \in 1..2
    /\ sched = TwoThreads

\* for iteration in range(n_iterations): the iterator is the thread's own, the
\* name iteration it assigns is the module's
LoopHeadThread ==
    /\ pc = "loop"
    /\ IF RangeHasNext(sched.next - 1, n_iterations)
       THEN /\ iteration' = sched.next
            /\ sched' = [sched EXCEPT !.next = @ + 1]
            /\ pc' = "rec0"
       ELSE /\ pc' = "done"
            /\ UNCHANGED <<iteration, sched>>
    /\ UNCHANGED <<inputs, rng, theta, theta_ev, gradients, err,
                   call, prev_theta, prev_theta_ev>>

\* the interpreter suspends the running thread and resumes the other one
Switch ==
    /\ sched.suspended.pc \notin {"done", "failed"}
    /\ pc' = sched.suspended.pc
    /\ err' = sched.suspended.err
    /\ sched' = [running |-> 3 - sched.running,
                 next |-> sched.suspended.next,
                 suspended |-> [pc |-> pc, err |-> err, next |-> sched.next]]
    /\ UNCHANGED <<inputs, rng, theta, theta_ev, gradients, iteration,
                   call, prev_theta, prev_theta_ev>>

NextThreads ==
    \/ Alloc \/ Seed \/ Draw \/ LoopHeadThread \/ Record0 \/ Record1
    \/ Gradient \/ Update \/ Switch

SpecThreads == InitThreads /\ [][NextThreads]_vars

(***************************************************************************)
(* C14.  Two concurrent executions do not interfere: a thread that         *)
(* completes its loop ends with the theta and the trajectory it produces   *)
(* when run alone, theta0 after n_iterations updates and, as snapshot k,   *)
(* theta0 after k updates.                                                 *)
(***************************************************************************)
C14_SameResultAsAlone ==
    pc = "done" =>
        /\ theta = ThetaAfter(n_iterations)
        /\ \A k \in 0..(n_iterations - 1) : Snapshot(theta_ev, k) = ThetaAfter(k)

(***************************************************************************)
(* C15.  The trajectory is append-only.  A step changes no entry of        *)
(* theta_ev but the one of the current iteration that the record statement *)
(* at pc writes (row 0 at rec0, row 1 at rec1); iteration never decreases, *)
(* and a pass starts at rec0 with iteration one higher, so each entry is   *)
(* written once and then keeps its value.  At the start of iteration k     *)
(* the columns 0..k-1 hold the snapshots theta_0..theta_(k-1) and every    *)
(* column from k on still holds the 1s of the allocation.                  *)
(***************************************************************************)
\* column k holds what np.ones put there
Unwritten(k) == \A j \in 1..Rows(theta_ev) : At(theta_ev, j - 1, k) = Rat(1)

C15_PrefixRecorded ==
    (ValidInputs /\ pc = "rec0") =>
        /\ \A k \in 0..(iteration - 1) : Snapshot(theta_ev, k) = ThetaAfter(k)
        /\ \A k \in iteration..(n_iterations - 1) : Unwritten(k)

C15_OwnEntryOnly ==
    /\ pc \notin {"alloc", "failed"} =>
          /\ Rows(theta_ev') = Rows(theta_ev)
          /\ Cols(theta_ev') = Cols(theta_ev)
          /\ \A j \in 1..Rows(theta_ev) : \A k \in 0..(Cols(theta_ev) - 1) :
                 At(theta_ev', j - 1, k) # At(theta_ev, j - 1, k) =>
                     /\ k = iteration
                     /\ pc = (IF j = 1 THEN "rec0" ELSE "rec1")
    /\ iteration' >= iteration
    /\ pc' = "rec0" => iteration' = iteration + 1

C15_AppendOnly == []C15_PrefixRecorded /\ [][C15_OwnEntryOnly]_vars

C15_Witness ==
    /\ ValidInputs
    /\ pc = "rec0"
    /\ iteration = 2
    /\ n_iterations > 2
    /\ \A k \in 0..1 : ~Unwritten(k)
    /\ Snapshot(theta_ev, 0) # Snapshot(theta_ev, 1)


====
